---------------------------- MODULE Spec2Model ----------------------------
(***************************************************************************)
(* Seam carving (neor164/seam_carving): the cost matrix and seam           *)
(* extraction of src/src/cost.rs, the buffer compaction and the SeamCarver *)
(* of src/src/seam.rs, and the Sobel energy of src/src/sobel.rs.           *)
(*                                                                         *)
(* Rust vectors are modelled as sequences; the code's 0-based index i is   *)
(* position i + 1 of the sequence (At, UpdateAt).  A slice index out of     *)
(* range and a usize subtraction below zero are panics: every function     *)
(* that indexes returns a record with a panic flag.  (In a release build a *)
(* usize underflow wraps instead; in cost.rs and seam.rs the wrapped value  *)
(* is then used as an index far outside the buffer, so both builds end in  *)
(* a panic; for Sobel::apply see Sobel_apply_wrapping.)  Energies and costs are f32 in the code;   *)
(* the Sobel energies are rounded magnitudes, so they are modelled as      *)
(* natural numbers, whose sums f32 represents exactly below 2^24.          *)
(***************************************************************************)
EXTENDS Integers, Sequences, FiniteSets, TLC

VARIABLES
    pc,          \* carver: "start", "ready", "done", "panic" ("idle" in the other specifications)
    arg,         \* carver: the arguments of SeamCarver::new (img, new_width, new_height)
    img,         \* SeamCarver.img: Option<DynamicImage>
    orig,        \* SeamCarver.orig
    desired,     \* SeamCarver.desired
    gray_buf,    \* SeamCarver.gray_buf
    energy_buf,  \* SeamCarver.energy_buf
    built,       \* carver: which buffers SeamCarver::new has computed so far
    removed,     \* carver: directions of the remove_seam calls completed by apply
    reason,      \* carver: why the run panicked ("none" while it has not)
    cm,          \* cost.rs functions applied to one input
    rm,          \* remove_path_from_image applied to one input
    sb           \* Sobel::apply applied to one input

vars == <<pc, arg, img, orig, desired, gray_buf, energy_buf, built, removed, reason, cm, rm,
          sb>>

carverVars == <<pc, arg, img, orig, desired, gray_buf, energy_buf, built, removed, reason>>

-----------------------------------------------------------------------------
(* Bounds of the model *)

\* largest width and height of an energy/cost buffer given to the cost.rs functions
MaxDim == 3
\* largest number of cells of such a buffer
MaxCells == 9
\* largest energy value of a cell
MaxEnergy == 1
\* largest number of cells of a buffer given to a Row removal
MaxRowCells == 5
\* largest width and height of a buffer given to a Column removal
MaxColDim == 3
\* largest channel count given to a removal
MaxChannels == 3
\* largest width and height of the carver's input image
MaxImg == 4
\* the carver's input images are patterns numbered 0..MaxPattern
MaxPattern == 2

\* largest number of pixels of an image of which every content is given to Sobel::apply
MaxSobelCells == 9
\* largest gray value of such an image
MaxGray == 1
\* largest width and height of the patterned images given to Sobel::apply
MaxSobelDim == 5

\* f32::MAX, the start value of the minimum scan; here the largest number of the model
F32_MAX == 2147483647

-----------------------------------------------------------------------------
(* Vectors *)

At(s, i) == s[i + 1]

InRange(s, i) == i >= 0 /\ i < Len(s)

UpdateAt(s, i, v) == [s EXCEPT ![i + 1] = v]

\* vec![v; n]
Filled(n, v) == [k \in 1..n |-> v]

\* Vec::resize(new_len, v): truncate, or extend with v
Resize(s, new_len, v) ==
    [k \in 1..new_len |-> IF k <= Len(s) THEN s[k] ELSE v]

-----------------------------------------------------------------------------
(* cost.rs *)

Directions == {"Row", "Column"}

from_dir(width, height, dir) ==
    IF dir = "Column"
    THEN [outer |-> width, inner |-> height, offset |-> width, stride |-> 1]
    ELSE [outer |-> height, inner |-> width, offset |-> 1, stride |-> width]

min2_flipped(v1, v2) == IF v1 < v2 THEN v2 ELSE v1

min2(v1, v2) == IF v1 < v2 THEN v1 ELSE v2

min3(v1, v2, v3) == min2(v1, min2(v2, v3))

Panicked(res) == [panic |-> TRUE, res |-> res, idx |-> 0, e_idx |-> 0]

\* the loop "for _ in 0..state.inner { res[idx] = energy[idx]; idx += state.offset }"
RECURSIVE CopyLastLine(_, _, _, _, _)
CopyLastLine(res, energy, state, idx, n) ==
    IF n <= 0 THEN [panic |-> FALSE, res |-> res, idx |-> idx, e_idx |-> 0]
    ELSE IF ~InRange(res, idx) \/ ~InRange(energy, idx) THEN Panicked(res)
    ELSE CopyLastLine(UpdateAt(res, idx, At(energy, idx)), energy, state,
                      idx + state.offset, n - 1)

\* the loop "for _ in 1..(state.inner - 1)" over the cells with three candidates
RECURSIVE MiddleCells(_, _, _, _, _, _)
MiddleCells(res, energy, state, idx, e_idx, n) ==
    IF n <= 0 THEN [panic |-> FALSE, res |-> res, idx |-> idx, e_idx |-> e_idx]
    ELSE IF \/ ~InRange(res, idx) \/ ~InRange(energy, idx)
            \/ ~InRange(res, e_idx)
            \/ ~InRange(res, e_idx + state.offset)
            \/ ~InRange(res, e_idx + 2 * state.offset)
         THEN Panicked(res)
    ELSE MiddleCells(
             UpdateAt(res, idx,
                      At(energy, idx) + min3(At(res, e_idx),
                                             At(res, e_idx + state.offset),
                                             At(res, e_idx + 2 * state.offset))),
             energy, state, idx + state.offset, e_idx + state.offset, n - 1)

LastCell_one_candidate(m, energy, state) ==
    IF m.panic THEN m
    ELSE IF \/ ~InRange(m.res, m.idx) \/ ~InRange(energy, m.idx)
            \/ ~InRange(m.res, m.e_idx + state.offset)
         THEN Panicked(m.res)
    ELSE [panic |-> FALSE,
          res   |-> UpdateAt(m.res, m.idx,
                        At(energy, m.idx) + At(m.res, m.e_idx + state.offset)),
          idx   |-> m.idx,
          e_idx |-> m.e_idx]

\* the last cell of a line, after the loop over the middle cells (m)
LastCell(m, energy, state) ==
    IF m.panic THEN m
    ELSE IF \/ ~InRange(m.res, m.idx) \/ ~InRange(energy, m.idx)
            \/ ~InRange(m.res, m.e_idx)
            \/ ~InRange(m.res, m.e_idx + state.offset)
         THEN Panicked(m.res)
    ELSE [panic |-> FALSE,
          res   |-> UpdateAt(m.res, m.idx,
                        At(energy, m.idx) + min2(At(m.res, m.e_idx),
                                                 At(m.res, m.e_idx + state.offset))),
          idx   |-> m.idx,
          e_idx |-> m.e_idx]

\* one pass of the loop "for _ in 0..(state.outer - 1)", from its new idx on: the
\* first cell, the middle cells, the last cell
CostLineAt(res, energy, state, idx, e_idx) ==
    IF \/ idx < 0
       \/ ~InRange(res, idx) \/ ~InRange(energy, idx)
       \/ ~InRange(res, e_idx)
       \/ ~InRange(res, e_idx + state.offset)
    THEN Panicked(res)
    ELSE LastCell(
             MiddleCells(
                 UpdateAt(res, idx,
                          At(energy, idx) + min2(At(res, e_idx),
                                                 At(res, e_idx + state.offset))),
                 energy, state, idx + state.offset, e_idx, state.inner - 2),
             energy, state)

\* one pass of the loop "for _ in 0..(state.outer - 1)"; idx0 is idx on entry
CostLine(res, energy, state, idx0) ==
    CostLineAt(res, energy, state,
               idx0 - (state.inner - 1) * state.offset - state.stride,
               idx0 - (state.inner - 1) * state.offset)

RECURSIVE CostLines(_, _, _, _)
CostLines(l, energy, state, n) ==
    IF n <= 0 \/ l.panic THEN l
    ELSE CostLines(CostLine(l.res, energy, state, l.idx), energy, state, n - 1)

\* the lines before the last one, after the copy of the last line (last)
CostAfterLastLine(last, energy, state) ==
    IF last.panic \/ last.idx - state.offset < 0
    THEN Panicked(last.res)
    ELSE CostLines([last EXCEPT !.idx = last.idx - state.offset], energy, state,
                   state.outer - 1)

CostResult(all) == [panic |-> all.panic, res |-> all.res]

\* build_cost_matrix(energy, width, height, dir): [panic, res]
BuildWith(energy, state) ==
    IF state.outer < 1 \/ state.inner < 1
    THEN [panic |-> TRUE, res |-> Filled(Len(energy), 0)]
    ELSE CostResult(
             CostAfterLastLine(
                 CopyLastLine(Filled(Len(energy), 0), energy, state,
                              (state.outer - 1) * state.stride, state.inner),
                 energy, state))

build_cost_matrix(energy, width, height, dir) ==
    BuildWith(energy, from_dir(width, height, dir))

\* the scan of the near-boundary line: the first smallest cost below f32::MAX
RECURSIVE NearScan(_, _, _, _, _, _)
NearScan(cost, state, idx, cur_min, min_idx, n) ==
    IF n <= 0 THEN [panic |-> FALSE, min_idx |-> min_idx]
    ELSE IF ~InRange(cost, idx) THEN [panic |-> TRUE, min_idx |-> min_idx]
    ELSE LET val == At(cost, idx)
         IN  IF cur_min > val
             THEN NearScan(cost, state, idx + state.offset, val, idx, n - 1)
             ELSE NearScan(cost, state, idx + state.offset, cur_min, min_idx, n - 1)

\* the first bound check of the walk, "(idx / offset) % inner != 0"
HasLower(state, idx) == (idx \div state.offset) % state.inner /= 0

HasUpper_off_by_one(state, idx) == (idx \div state.offset) % state.inner /= state.inner

\* the second bound check of the walk, "(idx / offset) % inner != inner - 1"
HasUpper(state, idx) == (idx \div state.offset) % state.inner /= state.inner - 1

\* the walk's cell after the comparison with the lower neighbour: [min_idx, cur_min]
AfterLower(cost, state, idx) ==
    IF HasLower(state, idx) /\ At(cost, idx) > At(cost, idx - state.offset)
    THEN [min_idx |-> idx - state.offset, cur_min |-> At(cost, idx - state.offset)]
    ELSE [min_idx |-> idx, cur_min |-> At(cost, idx)]

\* ... and after the comparison with the upper neighbour
AfterUpper(cost, state, idx, low) ==
    IF HasUpper(state, idx) /\ low.cur_min > At(cost, idx + state.offset)
    THEN idx + state.offset
    ELSE low.min_idx

\* one pass of the loop "for _ in 0..state.outer - 1" from idx = min_idx + stride:
\* the next cell of the seam
WalkStep(cost, state, idx) ==
    IF \/ ~InRange(cost, idx)
       \/ HasLower(state, idx) /\ ~InRange(cost, idx - state.offset)
       \/ HasUpper(state, idx) /\ ~InRange(cost, idx + state.offset)
    THEN [panic |-> TRUE, min_idx |-> idx]
    ELSE [panic |-> FALSE,
          min_idx |-> AfterUpper(cost, state, idx, AfterLower(cost, state, idx))]

RECURSIVE Walk(_, _, _, _)

Pushed(cost, state, res, s, n) ==
    IF s.panic THEN [panic |-> TRUE, res |-> res]
    ELSE Walk(cost, state, Append(res, s.min_idx), n - 1)

Walk(cost, state, res, n) ==
    IF n <= 0 THEN [panic |-> FALSE, res |-> res]
    ELSE Pushed(cost, state, res,
                WalkStep(cost, state, res[Len(res)] + state.stride), n)

WalkFrom(cost, state, near) ==
    IF near.panic THEN [panic |-> TRUE, res |-> <<>>]
    ELSE Walk(cost, state, <<near.min_idx>>, state.outer - 1)

FindWith(cost, state) ==
    IF state.inner < 1 \/ state.outer < 1
    THEN [panic |-> TRUE, res |-> <<>>]
    ELSE WalkFrom(cost, state, NearScan(cost, state, 0, F32_MAX, 0, state.inner))

\* find_shortest_path(cost, width, height, dir): [panic, res]
find_shortest_path(cost, width, height, dir) ==
    FindWith(cost, from_dir(width, height, dir))

-----------------------------------------------------------------------------
(* seam.rs: remove_path_from_image *)

RECURSIVE Insert(_, _)
Insert(sorted, v) ==
    IF sorted = <<>> THEN <<v>>
    ELSE IF v <= Head(sorted) THEN <<v>> \o sorted
    ELSE <<Head(sorted)>> \o Insert(Tail(sorted), v)

\* path.sort(): ascending
RECURSIVE SortAsc(_)
SortAsc(path) ==
    IF path = <<>> THEN <<>> ELSE Insert(SortAsc(Tail(path)), Head(path))

\* the loop "for i in from..to { img[i] = img[i + inc] }", in place and in order
RECURSIVE ShiftRange(_, _, _, _)
ShiftRange(buf, from, to, inc) ==
    IF from >= to THEN [panic |-> FALSE, res |-> buf]
    ELSE IF ~InRange(buf, from) \/ ~InRange(buf, from + inc)
         THEN [panic |-> TRUE, res |-> buf]
    ELSE ShiftRange(UpdateAt(buf, from, At(buf, from + inc)), from + 1, to, inc)

\* the loop "while let Some(next_idx) = path.pop()": rest holds the cells not yet
\* popped, lowest first; sw = [panic, res, idx, inc] is the state of the sweep
RECURSIVE RowSweep(_, _, _)

RowShifted(s, rest, next_idx, inc, no_channels) ==
    IF s.panic THEN [panic |-> TRUE, res |-> s.res, idx |-> next_idx - inc, inc |-> inc]
    ELSE RowSweep([panic |-> FALSE, res |-> s.res, idx |-> next_idx - inc,
                   inc |-> inc + no_channels],
                  Tail(rest), no_channels)

RowSweep(sw, rest, no_channels) ==
    IF rest = <<>> \/ sw.panic THEN sw
    ELSE IF Head(rest) * no_channels - sw.inc < 0 THEN [sw EXCEPT !.panic = TRUE]
    ELSE RowShifted(ShiftRange(sw.res, sw.idx, Head(rest) * no_channels - sw.inc,
                               sw.inc),
                    rest, Head(rest) * no_channels, sw.inc, no_channels)

\* img.resize(new_len, Default::default()) after the last loop (fin)
Resized(fin, new_len) ==
    IF fin.panic THEN [panic |-> TRUE, res |-> fin.res]
    ELSE [panic |-> FALSE, res |-> Resize(fin.res, new_len, 0)]

\* the loop "for i in idx..new_len" after the sweep (sw)
RowTail(sw, new_len) ==
    IF sw.panic THEN [panic |-> TRUE, res |-> sw.res]
    ELSE Resized(ShiftRange(sw.res, sw.idx, new_len, sw.inc), new_len)

\* the body of remove_path_from_image_dir_row after path.sort(); path.reverse():
\* popped holds the cells in the order path.pop() yields them
RowRemove(buf, popped, no_channels) ==
    IF Len(buf) - Len(popped) * no_channels < 0 \/ popped = <<>>
    THEN [panic |-> TRUE, res |-> buf]
    ELSE RowTail(RowSweep([panic |-> FALSE, res |-> buf,
                           idx |-> Head(popped) * no_channels, inc |-> no_channels],
                          Tail(popped), no_channels),
                 Len(buf) - Len(popped) * no_channels)

remove_path_from_image_dir_row_unsorted(buf, path, no_channels) ==
    RowRemove(buf, path, no_channels)

\* remove_path_from_image_dir_row(img, path, no_channels): [panic, res]
remove_path_from_image_dir_row(buf, path, no_channels) ==
    RowRemove(buf, SortAsc(path), no_channels)

\* the loop "for i in 0..no_channels { img[idx + i] = img[idx + line + i] }"
RECURSIVE CopyCell(_, _, _, _, _)
CopyCell(buf, idx, line, i, no_channels) ==
    IF i >= no_channels THEN [panic |-> FALSE, res |-> buf]
    ELSE IF ~InRange(buf, idx + i) \/ ~InRange(buf, idx + line + i)
         THEN [panic |-> TRUE, res |-> buf]
    ELSE CopyCell(UpdateAt(buf, idx + i, At(buf, idx + line + i)),
                  idx, line, i + 1, no_channels)

\* the loop "while idx + width * no_channels < img.len()" for one seam cell, c
\* being the buffer so far; every call has line = width * no_channels >= 1
RECURSIVE ShiftColumn(_, _, _, _)
ShiftColumn(c, idx, line, no_channels) ==
    IF c.panic \/ ~(idx + line < Len(c.res)) THEN c
    ELSE ShiftColumn(CopyCell(c.res, idx, line, 0, no_channels), idx + line, line,
                     no_channels)

\* the loop "for idx in path.iter().copied()"
RECURSIVE ColumnSweep(_, _, _, _)
ColumnSweep(s, rest, no_channels, line) ==
    IF rest = <<>> \/ s.panic THEN s
    ELSE ColumnSweep(ShiftColumn(s, Head(rest) * no_channels, line, no_channels),
                     Tail(rest), no_channels, line)

ColumnRemove(buf, path, no_channels, line, new_len) ==
    IF new_len < 0 THEN [panic |-> TRUE, res |-> buf]
    ELSE Resized(ColumnSweep([panic |-> FALSE, res |-> buf], path, no_channels, line),
                 new_len)

remove_path_from_image_dir_col_one_sample(buf, path, no_channels, width) ==
    ColumnRemove(buf, path, no_channels, width * no_channels, Len(buf) - Len(path))

remove_path_from_image_dir_col_cell_stride(buf, path, no_channels, width) ==
    ColumnRemove(buf, path, no_channels, width,
                 Len(buf) - Len(path) * no_channels)

\* remove_path_from_image_dir_col(img, path, no_channels, width): [panic, res]
remove_path_from_image_dir_col(buf, path, no_channels, width) ==
    ColumnRemove(buf, path, no_channels, width * no_channels,
                 Len(buf) - Len(path) * no_channels)

remove_path_from_image(buf, path, no_channels, dir, width) ==
    IF dir = "Row"
    THEN remove_path_from_image_dir_row(buf, path, no_channels)
    ELSE remove_path_from_image_dir_col(buf, path, no_channels, width)

-----------------------------------------------------------------------------
(* sobel.rs *)

KernelTypes == {"X3", "X5"}

size(kernel_type) == IF kernel_type = "X5" THEN 5 ELSE 3

kernel_x(kernel_type) ==
    IF kernel_type = "X5"
    THEN << 2,  2,  4,  2,  2,
            1,  1,  2,  1,  1,
            0,  0,  0,  0,  0,
           -1, -1, -2, -1, -1,
           -2, -2, -4, -2, -2>>
    ELSE <<-1, -2, -1,
            0,  0,  0,
            1,  2,  1>>

kernel_y(kernel_type) ==
    IF kernel_type = "X5"
    THEN <<2, 1, 0, -1, -2,
           2, 1, 0, -1, -2,
           4, 2, 0, -2, -4,
           2, 1, 0, -1, -2,
           2, 1, 0, -1, -2>>
    ELSE <<-1, 0, 1,
           -2, 0, 2,
           -1, 0, 1>>

RECURSIVE Dot(_, _, _)
Dot(patch, kernel, n) ==
    IF n = 0 THEN 0 ELSE patch[n] * kernel[n] + Dot(patch, kernel, n - 1)

\* (n as f32).powf(0.5).round(): the natural r with (r - 1/2)^2 <= n < (r + 1/2)^2
RoundSqrt(n) ==
    CHOOSE r \in 0..n : \/ n = 0 /\ r = 0
                        \/ r * r - r + 1 <= n /\ n <= r * r + r

\* Kernel::calculate on the patch copied for one pixel
calculate(patch, kernel_type) ==
    LET klength == size(kernel_type) * size(kernel_type)
        gx == Dot(patch, kernel_x(kernel_type), klength)
        gy == Dot(patch, kernel_y(kernel_type), klength)
    IN  RoundSqrt(gx * gx + gy * gy)

\* the patch of pixel (x, y): row i of the patch is image row y - (i - b)
Patch(image, width, x, y, kernel_type) ==
    LET ksize == size(kernel_type)
        b     == ksize \div 2
    IN  [k \in 1..(ksize * ksize) |->
            LET i  == (k - 1) \div ksize
                t  == (k - 1) % ksize
                yi == y - (i - b)
            IN  At(image, x - b + t + yi * width)]

\* Sobel::apply with the result of pixel (x, y) stored at (x - b) + (y - b) * width
Sobel_apply_shifted(image, width, height, kernel_type) ==
    LET b == size(kernel_type) \div 2
    IN  IF width - b < 0 \/ (b < width - b /\ height - b < 0)
        THEN [panic |-> TRUE, res |-> <<>>]
        ELSE [panic |-> FALSE,
              res   |-> [k \in 1..Len(image) |->
                            LET x == ((k - 1) % width) + b
                                y == ((k - 1) \div width) + b
                            IN  IF x < width - b /\ y < height - b
                                THEN calculate(Patch(image, width, x, y, kernel_type),
                                               kernel_type)
                                ELSE 0]]

\* Sobel::apply(image, width, height): [panic, res]; pixels closer than b to an
\* edge are never visited by the loops and keep the 0.0 the buffer starts with
Sobel_apply(image, width, height, kernel_type) ==
    LET b == size(kernel_type) \div 2
    IN  IF width - b < 0 \/ (b < width - b /\ height - b < 0)
        THEN [panic |-> TRUE, res |-> <<>>]
        ELSE [panic |-> FALSE,
              res   |-> [k \in 1..Len(image) |->
                            LET x == (k - 1) % width
                                y == (k - 1) \div width
                            IN  IF /\ b <= x /\ x < width - b
                                   /\ b <= y /\ y < height - b
                                THEN calculate(Patch(image, width, x, y, kernel_type),
                                               kernel_type)
                                ELSE 0]]

\* Sobel::apply in a build without overflow checks: width - b and height - b wrap
\* to huge values instead of panicking.  A wrapped bound with both loops non-empty
\* lets x or y grow until a slice of the image is out of range (a panic); with the
\* y loop empty the x loop runs without touching anything and the zero buffer is
\* returned.
Sobel_apply_wrapping(image, width, height, kernel_type) ==
    LET b == size(kernel_type) \div 2
        xs_nonempty == width - b < 0 \/ b < width - b
        ys_nonempty == height - b < 0 \/ b < height - b
    IN  IF width - b >= 0 /\ (height - b >= 0 \/ ~xs_nonempty)
        THEN Sobel_apply(image, width, height, kernel_type)
        ELSE IF xs_nonempty /\ ys_nonempty
             THEN [panic |-> TRUE, res |-> <<>>]
             ELSE [panic |-> FALSE, res |-> Filled(Len(image), 0)]

\* Sobel::apply as built with (debug) or without (release) overflow checks
Sobel_build(image, width, height, kernel_type, overflow_checks) ==
    IF overflow_checks
    THEN Sobel_apply(image, width, height, kernel_type)
    ELSE Sobel_apply_wrapping(image, width, height, kernel_type)

-----------------------------------------------------------------------------
(* seam.rs: SeamCarver *)

\* the DynamicImage variants of the model: the two that remove_seam splits, and
\* two of those it does not
Formats == {"Luma8", "Rgb8", "LumaA8", "Rgba8"}

Supported == {"Luma8", "Rgb8"}

Channels(fmt) ==
    CASE fmt = "Luma8"  -> 1
      [] fmt = "LumaA8" -> 2
      [] fmt = "Rgb8"   -> 3
      [] fmt = "Rgba8"  -> 4

None == [some |-> FALSE, fmt |-> "None", width |-> 0, height |-> 0, buf |-> <<>>]

Some(fmt, width, height, buf) ==
    [some |-> TRUE, fmt |-> fmt, width |-> width, height |-> height, buf |-> buf]

Dims(width, height) == [width |-> width, height |-> height]

\* img.grayscale().into_luma8().into_vec(): one luminance sample per pixel (the
\* image crate's weights for colour, the first sample for luma with alpha)
grayscale(image) ==
    LET c == Channels(image.fmt)
    IN  [k \in 1..(image.width * image.height) |->
            LET first == (k - 1) * c
            IN  IF image.fmt \in {"Luma8", "LumaA8"}
                THEN At(image.buf, first)
                ELSE (2126 * At(image.buf, first) + 7152 * At(image.buf, first + 1)
                        + 722 * At(image.buf, first + 2)) \div 10000]

\* ImageBuffer::from_vec(width, height, buf): None when buf is too short; a longer
\* buf is accepted and kept whole
from_vec(fmt, width, height, buf) ==
    IF width * height * Channels(fmt) > Len(buf) THEN None
    ELSE Some(fmt, width, height, buf)

NewFailed(builtSoFar, why) ==
    [panic |-> TRUE, reason |-> why, built |-> builtSoFar, orig |-> Dims(0, 0), desired |-> Dims(0, 0),
     img |-> None, gray_buf |-> <<>>, energy_buf |-> <<>>]

\* the Self that SeamCarver::new returns, energy being what sobel.apply returned
Built(image, new_width, new_height, gray, energy) ==
    IF energy.panic THEN NewFailed({"gray"}, "index")
    ELSE [panic |-> FALSE, reason |-> "none", built |-> {"gray", "energy"},
          orig |-> Dims(image.width, image.height),
          desired |-> Dims(new_width, new_height),
          img |-> image, gray_buf |-> gray, energy_buf |-> energy.res]

\* SeamCarver::new after the check of the target size
NewBuffers(image, new_width, new_height, gray) ==
    Built(image, new_width, new_height, gray,
          Sobel_apply(gray, image.width, image.height, "X3"))

new_checks_both(image, new_width, new_height) ==
    IF new_height > image.height /\ new_width > image.width
    THEN NewFailed({}, "target")
    ELSE NewBuffers(image, new_width, new_height, grayscale(image))

\* SeamCarver::new(img, new_width, new_height)
new(image, new_width, new_height) ==
    IF new_height > image.height \/ new_width > image.width
    THEN NewFailed({}, "target")
    ELSE NewBuffers(image, new_width, new_height, grayscale(image))

StepFailed(why, gray, energy) ==
    [panic |-> TRUE, reason |-> why, img |-> None, gray_buf |-> gray,
     energy_buf |-> energy]

\* the end of remove_seam: the new image from the compacted pixel buffer (made)
Rebuilt(made, g, e) ==
    IF ~made.some THEN StepFailed("unwrap", g.res, e.res)
    ELSE [panic |-> FALSE, reason |-> "none", img |-> made, gray_buf |-> g.res,
          energy_buf |-> e.res]

\* remove_seam after the three remove_path_from_image calls (g, e, b)
Compacted(image, dir, g, e, b) ==
    IF g.panic \/ e.panic \/ b.panic THEN StepFailed("index", g.res, e.res)
    ELSE IF dir = "Row"
    THEN IF image.width < 1 THEN StepFailed("index", g.res, e.res)
         ELSE Rebuilt(from_vec(image.fmt, image.width - 1, image.height, b.res), g, e)
    ELSE IF image.height < 1 THEN StepFailed("index", g.res, e.res)
         ELSE Rebuilt(from_vec(image.fmt, image.width, image.height - 1, b.res), g, e)

Split_energy_kept(self, dir, path) ==
    IF path.panic THEN StepFailed("index", self.gray_buf, self.energy_buf)
    ELSE IF self.img.fmt \notin Supported
    THEN StepFailed("format", self.gray_buf, self.energy_buf)
    ELSE Compacted(self.img, dir,
             remove_path_from_image(self.gray_buf, path.res, 1, dir, self.img.width),
             [panic |-> FALSE, res |-> self.energy_buf],
             remove_path_from_image(self.img.buf, path.res, Channels(self.img.fmt), dir,
                                    self.img.width))

\* remove_seam from the match on the image's variant on, with the seam (path)
Split(self, dir, path) ==
    IF path.panic THEN StepFailed("index", self.gray_buf, self.energy_buf)
    ELSE IF self.img.fmt \notin Supported
    THEN StepFailed("format", self.gray_buf, self.energy_buf)
    ELSE Compacted(self.img, dir,
             remove_path_from_image(self.gray_buf, path.res, 1, dir, self.img.width),
             remove_path_from_image(self.energy_buf, path.res, 1, dir, self.img.width),
             remove_path_from_image(self.img.buf, path.res, Channels(self.img.fmt), dir,
                                    self.img.width))

\* remove_seam after build_cost_matrix (cost_mat)
Seam(self, dir, cost_mat) ==
    IF cost_mat.panic THEN StepFailed("index", self.gray_buf, self.energy_buf)
    ELSE Split(self, dir,
               find_shortest_path(cost_mat.res, self.img.width, self.img.height, dir))

\* SeamCarver::remove_seam(&mut self, dir) on self = [img, gray_buf, energy_buf]:
\* [panic, reason, img, gray_buf, energy_buf].  self.img is taken first, so it is
\* None after every panic.
remove_seam(self, dir) ==
    IF ~self.img.some THEN StepFailed("unwrap", self.gray_buf, self.energy_buf)
    ELSE Seam(self, dir,
              build_cost_matrix(self.energy_buf, self.img.width, self.img.height, dir))

CountOf(seq, d) == Cardinality({k \in 1..Len(seq) : seq[k] = d})

\* SeamCarver::apply: what the two for loops do next, after the calls in done
apply_next(o, d, done) ==
    IF CountOf(done, "Column") < o.height - d.height /\ CountOf(done, "Row") = 0
    THEN "Column"
    ELSE IF CountOf(done, "Row") < o.width - d.width THEN "Row"
    ELSE "return"

-----------------------------------------------------------------------------
(* The inputs of the model *)

\* sample ch of pixel (x, y) of the input pattern p
Sample(p, x, y, ch) ==
    ((p + 1) * x + (p * p + 2) * y + p * x * y + ch * (x + 1)) % 4

InputImage(fmt, width, height, p) ==
    Some(fmt, width, height,
         [k \in 1..(width * height * Channels(fmt)) |->
            LET cell == (k - 1) \div Channels(fmt)
            IN  Sample(p, cell % width, cell \div width, (k - 1) % Channels(fmt))])

CarverIdle ==
    /\ pc = "idle"
    /\ arg = [img |-> None, new_width |-> 0, new_height |-> 0]
    /\ img = None
    /\ orig = Dims(0, 0)
    /\ desired = Dims(0, 0)
    /\ gray_buf = <<>>
    /\ energy_buf = <<>>
    /\ built = {}
    /\ removed = <<>>
    /\ reason = "none"

CostIdle ==
    cm = [pc |-> "idle", width |-> 0, height |-> 0, dir |-> "Row", energy |-> <<>>,
          cost |-> <<>>, path |-> <<>>]

RemoveIdle ==
    rm = [pc |-> "idle", dir |-> "Row", width |-> 0, height |-> 0, no_channels |-> 0,
          buf |-> <<>>, path |-> <<>>, out |-> <<>>]

SobelIdle ==
    sb = [pc |-> "idle", kernel_type |-> "X3", overflow_checks |-> TRUE, width |-> 0,
          height |-> 0, image |-> <<>>, out |-> <<>>]

-----------------------------------------------------------------------------
(* The carver: SeamCarver::new, then SeamCarver::apply one remove_seam at a time *)

Init ==
    /\ pc = "start"
    /\ \E fmt \in Formats, w \in 1..MaxImg, h \in 1..MaxImg, p \in 0..MaxPattern :
         \E nw \in 0..(w + 1), nh \in 0..(h + 1) :
            arg = [img |-> InputImage(fmt, w, h, p), new_width |-> nw,
                   new_height |-> nh]
    /\ img = None
    /\ orig = Dims(0, 0)
    /\ desired = Dims(0, 0)
    /\ gray_buf = <<>>
    /\ energy_buf = <<>>
    /\ built = {}
    /\ removed = <<>>
    /\ reason = "none"
    /\ CostIdle
    /\ RemoveIdle
    /\ SobelIdle

\* the guards of the carver's steps; each step's effect is defined whenever its
\* guard holds
CanNew == pc = "start"

CanRemoveSeam(dir) == pc = "ready" /\ apply_next(orig, desired, removed) = dir

CanReturn == pc = "ready" /\ apply_next(orig, desired, removed) = "return"

New ==
    /\ CanNew
    /\ \E c \in {new(arg.img, arg.new_width, arg.new_height)} :
           /\ pc' = IF c.panic THEN "panic" ELSE "ready"
           /\ reason' = c.reason
           /\ img' = c.img
           /\ orig' = c.orig
           /\ desired' = c.desired
           /\ gray_buf' = c.gray_buf
           /\ energy_buf' = c.energy_buf
           /\ built' = c.built
    /\ UNCHANGED <<arg, removed, cm, rm, sb>>

RemoveSeam(dir) ==
    /\ CanRemoveSeam(dir)
    /\ \E r \in {remove_seam([img |-> img, gray_buf |-> gray_buf,
                              energy_buf |-> energy_buf], dir)} :
           /\ pc' = IF r.panic THEN "panic" ELSE "ready"
           /\ reason' = r.reason
           /\ img' = r.img
           /\ gray_buf' = r.gray_buf
           /\ energy_buf' = r.energy_buf
           /\ removed' = IF r.panic THEN removed ELSE Append(removed, dir)
    /\ UNCHANGED <<arg, orig, desired, built, cm, rm, sb>>

ApplyColumn == RemoveSeam("Column")

ApplyRow == RemoveSeam("Row")

\* self.img.unwrap(): apply returns the image
ApplyReturn ==
    /\ CanReturn
    /\ pc' = IF img.some THEN "done" ELSE "panic"
    /\ reason' = IF img.some THEN "none" ELSE "unwrap"
    /\ UNCHANGED <<arg, img, orig, desired, gray_buf, energy_buf, built, removed, cm, rm, sb>>

Next == New \/ ApplyColumn \/ ApplyRow \/ ApplyReturn

Spec == Init /\ [][Next]_vars

-----------------------------------------------------------------------------
(* cost.rs on its own: build_cost_matrix and find_shortest_path applied to every *)
(* small energy buffer, and find_shortest_path to the same buffer taken as a     *)
(* cost buffer, as the tests of cost.rs do                                       *)

CostInit ==
    /\ CarverIdle
    /\ RemoveIdle
    /\ SobelIdle
    /\ \E w \in 1..MaxDim, h \in 1..MaxDim, d \in Directions :
         /\ w * h <= MaxCells
         /\ \E e \in [1..(w * h) -> 0..MaxEnergy] :
              cm = [pc |-> "input", width |-> w, height |-> h, dir |-> d,
                    energy |-> e, cost |-> <<>>, path |-> <<>>]

CostBuild ==
    /\ cm.pc = "input"
    /\ \E r \in {build_cost_matrix(cm.energy, cm.width, cm.height, cm.dir)} :
         cm' = [cm EXCEPT !.pc = IF r.panic THEN "build_panic" ELSE "built",
                          !.cost = r.res]
    /\ UNCHANGED <<carverVars, rm, sb>>

CostFind ==
    /\ cm.pc = "built"
    /\ \E r \in {find_shortest_path(cm.cost, cm.width, cm.height, cm.dir)} :
         cm' = [cm EXCEPT !.pc = IF r.panic THEN "find_panic" ELSE "found",
                          !.path = r.res]
    /\ UNCHANGED <<carverVars, rm, sb>>

CostFindRaw ==
    /\ cm.pc = "input"
    /\ \E r \in {find_shortest_path(cm.energy, cm.width, cm.height, cm.dir)} :
         cm' = [cm EXCEPT !.pc = IF r.panic THEN "raw_panic" ELSE "raw",
                          !.cost = cm.energy,
                          !.path = r.res]
    /\ UNCHANGED <<carverVars, rm, sb>>

CostNext == CostBuild \/ CostFind \/ CostFindRaw

CostSpec == CostInit /\ [][CostNext]_vars

-----------------------------------------------------------------------------
(* remove_path_from_image on its own.  The samples of the buffer are numbered, *)
(* so the result shows where each one came from.                               *)

Numbered(n) == [k \in 1..n |-> k]

\* the non-empty lists of distinct cells of a buffer of n cells, in any order
DistinctPaths(n) ==
    {p \in UNION {[1..k -> 0..(n - 1)] : k \in 1..n} :
        \A i, j \in 1..Len(p) : i /= j => p[i] /= p[j]}

\* the lists holding exactly one cell of each column, in any order
ColumnPaths(w, h) ==
    {p \in [1..w -> 0..(w * h - 1)] :
        \A col \in 0..(w - 1) : Cardinality({k \in 1..w : p[k] % w = col}) = 1}

RemoveInit ==
    /\ CarverIdle
    /\ CostIdle
    /\ SobelIdle
    /\ \E c \in 1..MaxChannels :
         \/ \E n \in 1..MaxRowCells : \E p \in DistinctPaths(n) :
              rm = [pc |-> "input", dir |-> "Row", width |-> n, height |-> 1,
                    no_channels |-> c, buf |-> Numbered(n * c), path |-> p,
                    out |-> <<>>]
         \/ \E w \in 1..MaxColDim, h \in 1..MaxColDim : \E p \in ColumnPaths(w, h) :
              rm = [pc |-> "input", dir |-> "Column", width |-> w, height |-> h,
                    no_channels |-> c, buf |-> Numbered(w * h * c), path |-> p,
                    out |-> <<>>]

Remove(dir) ==
    /\ rm.pc = "input"
    /\ rm.dir = dir
    /\ \E r \in {remove_path_from_image(rm.buf, rm.path, rm.no_channels, dir,
                                        rm.width)} :
         rm' = [rm EXCEPT !.pc = IF r.panic THEN "panic" ELSE "removed",
                          !.out = r.res]
    /\ UNCHANGED <<carverVars, cm, sb>>

RemoveRow == Remove("Row")

RemoveColumn == Remove("Column")

RemoveNext == RemoveRow \/ RemoveColumn

RemoveSpec == RemoveInit /\ [][RemoveNext]_vars

-----------------------------------------------------------------------------
(* Sobel::apply on its own, with both kernels and in both builds: every small *)
(* image of gray values 0..MaxGray, and the patterned images of the carver's  *)
(* inputs at the larger sizes                                                 *)

GrayPattern(width, height, p) ==
    [k \in 1..(width * height) |-> Sample(p, (k - 1) % width, (k - 1) \div width, 0)]

SobelImages(width, height) ==
    IF width * height <= MaxSobelCells
    THEN [1..(width * height) -> 0..MaxGray]
    ELSE {GrayPattern(width, height, p) : p \in 0..MaxPattern}

SobelInit ==
    /\ CarverIdle
    /\ CostIdle
    /\ RemoveIdle
    /\ \E w \in 1..MaxSobelDim, h \in 1..MaxSobelDim, kt \in KernelTypes, oc \in BOOLEAN :
         \E g \in SobelImages(w, h) :
            sb = [pc |-> "input", kernel_type |-> kt, overflow_checks |-> oc,
                  width |-> w, height |-> h, image |-> g, out |-> <<>>]

SobelApply ==
    /\ sb.pc = "input"
    /\ \E r \in {Sobel_build(sb.image, sb.width, sb.height, sb.kernel_type,
                             sb.overflow_checks)} :
         sb' = [sb EXCEPT !.pc = IF r.panic THEN "panic" ELSE "applied",
                          !.out = r.res]
    /\ UNCHANGED <<carverVars, cm, rm>>

SobelNext == SobelApply

SobelSpec == SobelInit /\ [][SobelNext]_vars

-----------------------------------------------------------------------------
(* Claims about the carver *)

w_diff == arg.img.width - arg.new_width

h_diff == arg.img.height - arg.new_height

\* the input of C1: a 1- or 3-channel image and a target of at least 1 x 1 that is
\* no larger than the image
C1_Valid ==
    /\ arg.img.fmt \in Supported
    /\ 1 <= arg.new_width /\ arg.new_width <= arg.img.width
    /\ 1 <= arg.new_height /\ arg.new_height <= arg.img.height

C1_Sized ==
    /\ img.some
    /\ img.fmt = arg.img.fmt
    /\ img.width = arg.new_width
    /\ img.height = arg.new_height
    /\ Len(img.buf) = arg.new_width * arg.new_height * Channels(arg.img.fmt)

\* some step of the run can be taken
CanStep == CanNew \/ CanRemoveSeam("Column") \/ CanRemoveSeam("Row") \/ CanReturn

\* what is left of the run: it decreases with every step, so the run ends
StepsLeft ==
    IF pc \in {"done", "panic"} THEN 0
    ELSE IF pc = "start" THEN w_diff + h_diff + 2
    ELSE w_diff + h_diff + 1 - Len(removed)

\* C1: for an image of w x h >= 1 x 1 with 1 or 3 channels and a target of
\* (w - dw) x (h - dh), 0 <= dw < w, 0 <= dh < h, new(..).apply() never panics; it
\* completes (until it has returned a next step can be taken, and every step
\* brings the return nearer); and the image it returns has exactly the target's
\* width and height and a pixel buffer of width * height * channels samples.
C1_RoundTripSize ==
    /\ [](C1_Valid => /\ pc /= "panic"
                      /\ pc = "done" => C1_Sized
                      /\ pc /= "done" => CanStep
                      /\ StepsLeft >= 0)
    /\ [][C1_Valid => StepsLeft' < StepsLeft]_vars

C1_Witness ==
    /\ C1_Valid
    /\ pc = "done"
    /\ arg.img.fmt = "Rgb8"
    /\ w_diff >= 1
    /\ h_diff >= 1
    /\ C1_Sized

TooLarge == arg.new_width > arg.img.width \/ arg.new_height > arg.img.height

\* C2: new fails when the target is wider or higher than the image, before the
\* grayscale and the energy buffer are computed and without a carver (no clamped
\* target); with a target no larger than the image it does not fail for the target
\* size, and the carver holds the target as given.
C2_RejectsEnlargement ==
    pc /= "start" =>
        /\ TooLarge => /\ pc = "panic"
                       /\ reason = "target"
                       /\ built = {}
                       /\ ~img.some
        /\ ~TooLarge => /\ reason /= "target"
                        /\ built = {"gray", "energy"}
                        /\ desired = Dims(arg.new_width, arg.new_height)

C2_Witness ==
    /\ pc = "panic"
    /\ reason = "target"
    /\ arg.new_width > arg.img.width
    /\ arg.new_height <= arg.img.height
    /\ built = {}

-----------------------------------------------------------------------------
(* Claims about cost.rs *)

cmState == from_dir(cm.width, cm.height, cm.dir)

\* the cell on line k (from 0, the near boundary) at secondary index j
Cell(state, k, j) == k * state.stride + j * state.offset

\* the line and the secondary index of a cell of the buffer of cm
LineOf(p) == IF cm.dir = "Row" THEN p \div cm.width ELSE p % cm.width

SecondaryOf(p) == IF cm.dir = "Row" THEN p % cm.width ELSE p \div cm.width

Abs(x) == IF x < 0 THEN 0 - x ELSE x

\* the 1-connected paths with one cell per line, as the secondary index per line
ConnectedPaths(state) ==
    {q \in [1..state.outer -> 0..(state.inner - 1)] :
        \A k \in 1..(state.outer - 1) : Abs(q[k + 1] - q[k]) <= 1}

CellsOf(state, q) == [k \in 1..state.outer |-> Cell(state, k - 1, q[k])]

RECURSIVE SumAt(_, _, _)
SumAt(energy, cells, n) ==
    IF n = 0 THEN 0 ELSE At(energy, cells[n]) + SumAt(energy, cells, n - 1)

PathEnergy(energy, cells) == SumAt(energy, cells, Len(cells))

Least(S) == CHOOSE v \in S : \A u \in S : v <= u

\* C3: with a secondary dimension of at least 2, the seam that find_shortest_path
\* returns for the matrix of build_cost_matrix is a 1-connected path with one cell
\* per line whose summed energy is the least over all such paths, and that sum is
\* the smallest cost on the near-boundary line.
C3_SeamIsMinimal ==
    (cm.pc = "found" /\ cmState.inner >= 2) =>
        /\ \E q \in ConnectedPaths(cmState) : cm.path = CellsOf(cmState, q)
        /\ PathEnergy(cm.energy, cm.path)
             = Least({PathEnergy(cm.energy, CellsOf(cmState, q)) :
                        q \in ConnectedPaths(cmState)})
        /\ PathEnergy(cm.energy, cm.path)
             = Least({At(cm.cost, Cell(cmState, 0, j)) : j \in 0..(cmState.inner - 1)})

C3_Witness ==
    /\ cm.pc = "found"
    /\ cm.width = 3
    /\ cm.height = 3
    /\ PathEnergy(cm.energy, cm.path) >= 1
    /\ \E k \in 1..2 :
         SecondaryOf(cm.path[k + 1]) /= SecondaryOf(cm.path[k])
    /\ \E q \in ConnectedPaths(cmState) :
         PathEnergy(cm.energy, CellsOf(cmState, q)) > PathEnergy(cm.energy, cm.path)

\* the costs of the neighbours of the cell (k, j) that exist on line k + 1
Candidates(cost, state, k, j) ==
    {At(cost, Cell(state, k + 1, i)) :
        i \in {i \in {j - 1, j, j + 1} : 0 <= i /\ i < state.inner}}

CostRecurrence(energy, cost, state) ==
    /\ Len(cost) = Len(energy)
    /\ \A j \in 0..(state.inner - 1) :
         At(cost, Cell(state, state.outer - 1, j))
           = At(energy, Cell(state, state.outer - 1, j))
    /\ \A k \in 0..(state.outer - 2), j \in 0..(state.inner - 1) :
         /\ Cardinality({i \in {j - 1, j, j + 1} : 0 <= i /\ i < state.inner})
              = IF j = 0 \/ j = state.inner - 1 THEN 2 ELSE 3
         /\ At(cost, Cell(state, k, j))
              = At(energy, Cell(state, k, j)) + Least(Candidates(cost, state, k, j))

\* the grids of test_build_cost_01_row, test_build_cost_01_col, test_build_cost_02
TestGrid01 ==
    <<1, 0, 0,
      0, 1, 0,
      0, 0, 1,
      2, 1, 3>>

TestGrid02 ==
    <<1, 2, 3, 4, 5,
      10, 9, 8, 7, 6>>

TestGridsAsExpected ==
    /\ build_cost_matrix(TestGrid01, 3, 4, "Row")
         = [panic |-> FALSE, res |-> <<2, 1, 1,
                                       1, 2, 1,
                                       1, 1, 2,
                                       2, 1, 3>>]
    /\ build_cost_matrix(TestGrid01, 3, 4, "Column")
         = [panic |-> FALSE, res |-> <<1, 0, 0,
                                       0, 1, 0,
                                       0, 0, 1,
                                       2, 2, 3>>]
    /\ build_cost_matrix(TestGrid02, 5, 2, "Row")
         = [panic |-> FALSE, res |-> <<10, 10, 10, 10, 11,
                                       10, 9, 8, 7, 6>>]

\* C4: with a secondary dimension of at least 2, build_cost_matrix returns (no
\* panic) a buffer as long as the energy in which the far-boundary line is the
\* energy's, and every other cell is its energy plus the least cost among its
\* neighbours on the next line at the same secondary index, one less and one more
\* (two of them at the first and last secondary index, else three); a zero energy
\* gives a zero cost, and the grids of the tests give the matrices expected there.
C4_CostRecurrence ==
    cmState.inner >= 2 =>
        /\ cm.pc /= "build_panic"
        /\ cm.pc \in {"built", "found"} =>
             /\ CostRecurrence(cm.energy, cm.cost, cmState)
             /\ (\A k \in 1..Len(cm.energy) : cm.energy[k] = 0) => cm.cost = cm.energy
             /\ TestGridsAsExpected

C4_Witness ==
    /\ cm.pc = "built"
    /\ cm.width = 3
    /\ cm.height = 3
    /\ cm.dir = "Column"
    /\ CostRecurrence(cm.energy, cm.cost, cmState)
    /\ At(cm.cost, 0) = 3
    /\ At(cm.cost, 3) = 2

\* C5: find_shortest_path returns (no panic), for a cost buffer of width x height
\* >= 1 x 1, as many cells as there are lines, all inside the buffer, the k-th on
\* the k-th line, and the secondary indices of consecutive cells differ by at
\* most 1.
C5_SeamShape ==
    /\ cm.pc \notin {"find_panic", "raw_panic"}
    /\ cm.pc \in {"found", "raw"} =>
         /\ Len(cm.path) = cmState.outer
         /\ \A k \in 1..Len(cm.path) :
              /\ 0 <= cm.path[k] /\ cm.path[k] < cm.width * cm.height
              /\ LineOf(cm.path[k]) = k - 1
         /\ \A k \in 1..(Len(cm.path) - 1) :
              Abs(SecondaryOf(cm.path[k + 1])
                    - SecondaryOf(cm.path[k])) <= 1

C5_Witness ==
    /\ cm.pc = "raw"
    /\ cm.width = 3
    /\ cm.height = 3
    /\ cm.dir = "Column"
    /\ SecondaryOf(cm.path[1]) = 1
    /\ SecondaryOf(cm.path[2]) = 2
    /\ SecondaryOf(cm.path[3]) = 2

-----------------------------------------------------------------------------
(* Claims about remove_path_from_image *)

Range(f) == {f[k] : k \in DOMAIN f}

\* the buffer without the samples of the cells of the path, the others in order
\* (sample number v of the numbered buffer belongs to cell (v - 1) \div channels)
WithoutCells(buf, path, no_channels) ==
    LET Kept(v) == ((v - 1) \div no_channels) \notin Range(path)
    IN  SelectSeq(buf, Kept)

\* C6: a Row removal of a non-empty list of distinct cells, in any order, from a
\* buffer of n * c samples does not panic, shortens the buffer by exactly
\* path.len() * c, and leaves the original samples without the c samples of each
\* listed cell, every other sample in its original relative order.
C6_RowRemoval ==
    rm.dir = "Row" =>
        /\ rm.pc /= "panic"
        /\ rm.pc = "removed" =>
             /\ Len(rm.out) = Len(rm.buf) - Len(rm.path) * rm.no_channels
             /\ rm.out = WithoutCells(rm.buf, rm.path, rm.no_channels)

C6_Witness ==
    /\ rm.pc = "removed"
    /\ rm.dir = "Row"
    /\ rm.no_channels = 3
    /\ rm.path = <<3, 0, 2>>
    /\ rm.out = <<4, 5, 6>>

\* the row of the path's cell in column x
SeamRow(path, width, x) ==
    path[CHOOSE k \in 1..Len(path) : path[k] % width = x] \div width

\* C7: a Column removal of a path with exactly one cell per column, in any order,
\* from a buffer of width * height * c samples does not panic and leaves
\* width * (height - 1) * c samples: every column is the original column without
\* its seam cell, the cells below it one row up, the cells above it and the order
\* of the channels within each cell unchanged.
C7_ColumnRemoval ==
    rm.dir = "Column" =>
        /\ rm.pc /= "panic"
        /\ rm.pc = "removed" =>
             /\ Len(rm.out) = rm.width * (rm.height - 1) * rm.no_channels
             /\ \A x \in 0..(rm.width - 1), y \in 0..(rm.height - 2),
                   ch \in 0..(rm.no_channels - 1) :
                   At(rm.out, (y * rm.width + x) * rm.no_channels + ch)
                     = At(rm.buf,
                          ((IF y >= SeamRow(rm.path, rm.width, x) THEN y + 1 ELSE y)
                              * rm.width + x) * rm.no_channels + ch)

C7_Witness ==
    /\ rm.pc = "removed"
    /\ rm.dir = "Column"
    /\ rm.no_channels = 2
    /\ rm.width = 3
    /\ rm.height = 3
    /\ rm.path = <<5, 0, 4>>
    /\ rm.out = <<7, 8, 3, 4, 5, 6, 13, 14, 15, 16, 17, 18>>

-----------------------------------------------------------------------------
(* Claims about the carver's buffers and loops *)

\* C8: after construction and after every remove_seam of apply, for any target
\* and any removals, gray_buf and energy_buf hold W * H values and the pixel buffer
\* W * H * channels, W x H being the image's current size; each step shortens
\* gray_buf, energy_buf and (in cells) the pixel buffer by the same amount.
C8_LockStep ==
    /\ [](pc \in {"ready", "done"} =>
            /\ img.some
            /\ Len(gray_buf) = img.width * img.height
            /\ Len(energy_buf) = img.width * img.height
            /\ Len(img.buf) = img.width * img.height * Channels(img.fmt))
    /\ [][removed' /= removed =>
            /\ Len(gray_buf) - Len(gray_buf') = Len(energy_buf) - Len(energy_buf')
            /\ Len(img.buf) - Len(img'.buf)
                 = (Len(gray_buf) - Len(gray_buf')) * Channels(img.fmt)
            /\ Len(gray_buf) - Len(gray_buf')
                 = IF removed'[Len(removed')] = "Row" THEN img.height ELSE img.width]_vars

C8_Witness ==
    /\ pc = "ready"
    /\ arg.img.fmt = "Rgb8"
    /\ removed = <<"Column", "Column", "Row">>
    /\ Len(gray_buf) = 6
    /\ Len(energy_buf) = 6
    /\ Len(img.buf) = 18

\* C9 as claimed: a run of apply that has ended on an image of a supported format
\* has made exactly h_diff Column removals and then exactly w_diff Row removals.
C9_ExactRemovals ==
    (pc \in {"done", "panic"} /\ reason /= "target" /\ arg.img.fmt \in Supported) =>
        removed = [k \in 1..(h_diff + w_diff) |->
                      IF k <= h_diff THEN "Column" ELSE "Row"]

\* C10 as claimed: an image that is neither Luma8 nor Rgb8 is never returned by
\* apply as a result.
C10_UnsupportedNeverReturned ==
    arg.img.fmt \notin Supported => pc /= "done"

-----------------------------------------------------------------------------
(* Claims about Sobel::apply *)

sbB == size(sb.kernel_type) \div 2

PixelX(k) == (k - 1) % sb.width

PixelY(k) == (k - 1) \div sb.width

\* a pixel closer than floor(ksize / 2) to an edge of the image of sb
BoundaryPixel(x, y) ==
    x < sbB \/ sb.width - 1 - x < sbB \/ y < sbB \/ sb.height - 1 - y < sbB

\* the sum of kernel weight times gray value over the first n positions of the
\* ksize x ksize neighbourhood of (x, y) that lie inside the image; weight n is
\* that of row (n - 1) \div ksize and column (n - 1) % ksize of the kernel
RECURSIVE ClampedSum(_, _, _, _)
ClampedSum(kernel, x, y, n) ==
    IF n = 0
    THEN 0
    ELSE LET ksize == size(sb.kernel_type)
             px == x - sbB + ((n - 1) % ksize)
             py == y - sbB + ((n - 1) \div ksize)
         IN  (IF 0 <= px /\ px < sb.width /\ 0 <= py /\ py < sb.height
              THEN kernel[n] * At(sb.image, px + py * sb.width)
              ELSE 0)
             + ClampedSum(kernel, x, y, n - 1)

\* gx^2 + gy^2 over the clamped neighbourhood of (x, y)
ClampedSquare(x, y) ==
    LET n  == size(sb.kernel_type) * size(sb.kernel_type)
        gx == ClampedSum(kernel_x(sb.kernel_type), x, y, n)
        gy == ClampedSum(kernel_y(sb.kernel_type), x, y, n)
    IN  gx * gx + gy * gy

\* r is the square root of n rounded to the nearest integer
IsRoundedRoot(r, n) ==
    /\ r >= 0
    /\ r = 0 \/ (2 * r - 1) * (2 * r - 1) <= 4 * n
    /\ 4 * n < (2 * r + 1) * (2 * r + 1)

\* C11 as stated: when Sobel::apply returns, the energy of every pixel, boundary
\* pixels included, is the gradient magnitude sqrt(gx^2 + gy^2) of the sums taken
\* over the part of its ksize x ksize neighbourhood that lies inside the image.
C11_ClampedBoundary ==
    sb.pc = "applied" =>
        /\ Len(sb.out) = Len(sb.image)
        /\ \A k \in 1..Len(sb.out) :
              IsRoundedRoot(sb.out[k], ClampedSquare(PixelX(k), PixelY(k)))

\* C11 as amended: when Sobel::apply returns, the energy of a boundary pixel is the
\* fixed value 0 (the pixel is never visited), and the energy of an interior pixel
\* is the gradient magnitude sqrt(gx^2 + gy^2) over its full ksize x ksize patch.
C11_BoundaryZero ==
    sb.pc = "applied" =>
        /\ Len(sb.out) = Len(sb.image)
        /\ \A k \in 1..Len(sb.out) :
              IF BoundaryPixel(PixelX(k), PixelY(k))
              THEN sb.out[k] = 0
              ELSE IsRoundedRoot(sb.out[k], ClampedSquare(PixelX(k), PixelY(k)))

\* Sobel::apply returned an image with a boundary pixel whose clamped
\* neighbourhood has a gradient, and an interior pixel of non-zero energy
C11_Witness ==
    /\ sb.pc = "applied"
    /\ \E k \in 1..Len(sb.out) :
          /\ BoundaryPixel(PixelX(k), PixelY(k))
          /\ ClampedSquare(PixelX(k), PixelY(k)) > 0
    /\ \E k \in 1..Len(sb.out) :
          /\ ~BoundaryPixel(PixelX(k), PixelY(k))
          /\ sb.out[k] > 0

-----------------------------------------------------------------------------
(* Claims about build_cost_matrix at a secondary dimension of 1 *)

\* with one cell per line, every cell off the far line is its energy plus the cost
\* of the one cell of the next line
SingleNeighbourRecurrence(energy, cost, state) ==
    /\ Len(cost) = Len(energy)
    /\ At(cost, Cell(state, state.outer - 1, 0)) = At(energy, Cell(state, state.outer - 1, 0))
    /\ \A k \in 0..(state.outer - 2) :
         At(cost, Cell(state, k, 0))
           = At(energy, Cell(state, k, 0)) + At(cost, Cell(state, k + 1, 0))

\* C12 as claimed: for every width >= 1, height >= 1 and both directions,
\* build_cost_matrix reads and writes only indices inside the buffer (it does not
\* panic), a secondary dimension of 1 with an outer dimension >= 2 included, and
\* there every cell off the far line is its energy plus the cost of its single
\* neighbour on the next line.
C12_InBoundsAtOne ==
    /\ cm.pc /= "build_panic"
    /\ (cm.pc \in {"built", "found"} /\ cmState.inner = 1) =>
          SingleNeighbourRecurrence(cm.energy, cm.cost, cmState)

=============================================================================
